---- MODULE Spec2Model ----
(***************************************************************************)
(* The PayPal webhook receiver of the Meno-Guide functions code            *)
(* (paypalWebhookHandler) as a state machine.                              *)
(*                                                                         *)
(* A handler invocation runs in three stretches, cut at its two awaits:    *)
(*   Receive        lines 33-64  up to `await client.execute(...)`         *)
(*   VerifyReturn   lines 64-161 up to `await userDocRef.update(...)`      *)
(*   UpdateReturn   lines 161-169                                          *)
(* StoreUpdate is the document store executing the partial update.         *)
(*                                                                         *)
(* The service worker of sw.js (install, activate and fetch listeners) is  *)
(* a second state machine over its own variables.                          *)
(*                                                                         *)
(* JavaScript objects are functions whose domain is the set of properties  *)
(* that are present; reading an absent property gives Undefined.           *)
(***************************************************************************)
EXTENDS Integers, Sequences, FiniteSets, TLC

VARIABLES config, store, delivered, pc, req, res, verifyCalls, updateCalls,
          verification, processed, subscriptionUpdate, updateError

\* the payment provider and the record of what happened (history)
VARIABLES outbox, faults, commits, store0, acked, snapshot

\* the service worker
VARIABLES swState, caches, fetches, fetched

handlerVars ==
    << config, store, delivered, pc, req, res, verifyCalls, updateCalls,
       verification, processed, subscriptionUpdate, updateError >>

providerVars == << outbox, faults, commits, store0, acked, snapshot >>

workerVars == << swState, caches, fetches, fetched >>

vars == << handlerVars, providerVars, workerVars >>

(***************************************************************************)
(* Bounds                                                                  *)
(***************************************************************************)
\* number of requests delivered in one behaviour
MaxRequests == 2

\* number of times the verification service or the store fails before it
\* stops failing
MaxFaults == 1

\* number of network fetches the service worker's fetch listener makes
MaxFetches == 2

\* handler instances the platform may run; Spec delivers to SeqInstances only
Instances == {"h1", "h2"}
SeqInstances == {"h1"}

(***************************************************************************)
(* JavaScript values                                                       *)
(***************************************************************************)
Undefined == "undefined"

EmptyObject == [x \in {} |-> x]

\* obj.name
Get(obj, name) == IF name \in DOMAIN obj THEN obj[name] ELSE Undefined

\* !v for a string or undefined
Falsy(v) == v = Undefined \/ v = ""

\* a || b for strings or undefined
OrElse(a, b) == IF Falsy(a) THEN b ELSE a

\* s.startsWith(prefix), strings as sequences of characters
StartsWith(s, prefix) ==
    /\ Len(s) >= Len(prefix)
    /\ SubSeq(s, 1, Len(prefix)) = prefix

\* an object with the property only when present is TRUE
Prop(present, name, value) == IF present THEN name :> value ELSE EmptyObject

(***************************************************************************)
(* Configuration: process.env.NODE_ENV and functions.config().paypal       *)
(***************************************************************************)
LivePlans ==
    ("live_plan_monthly" :> "P-LM") @@ ("live_plan_yearly" :> "P-LY")
        @@ ("live_plan_trial" :> "P-LT")

SandboxPlans ==
    ("sandbox_plan_monthly" :> "P-SM") @@ ("sandbox_plan_yearly" :> "P-SY")
        @@ ("sandbox_plan_trial" :> "P-ST")

Configs ==
    { ("NODE_ENV" :> "production") @@ ("webhook_id" :> "WH-LIVE")
          @@ ("sandbox_webhook_id" :> "WH-SB") @@ LivePlans @@ SandboxPlans,
      ("NODE_ENV" :> "development") @@ ("webhook_id" :> "WH-LIVE")
          @@ ("sandbox_webhook_id" :> "WH-SB") @@ LivePlans @@ SandboxPlans,
      ("NODE_ENV" :> "development") @@ ("webhook_id" :> "WH-LIVE") @@ LivePlans,
      ("NODE_ENV" :> "development") @@ LivePlans @@ SandboxPlans,
      ("NODE_ENV" :> "production") @@ ("sandbox_webhook_id" :> "WH-SB")
          @@ LivePlans @@ SandboxPlans,
      ("NODE_ENV" :> "production") @@ ("webhook_id" :> "") @@ LivePlans }

\* const webhookId
webhookId(cfg) ==
    IF cfg["NODE_ENV"] = "production"
    THEN Get(cfg, "webhook_id")
    ELSE OrElse(Get(cfg, "sandbox_webhook_id"), Get(cfg, "webhook_id"))

(***************************************************************************)
(* Requests                                                                *)
(***************************************************************************)
Methods == {"POST", "GET", "PUT"}

HeaderNames ==
    { "paypal-transmission-id", "paypal-transmission-time", "paypal-cert-url",
      "paypal-auth-algo", "paypal-transmission-sig" }

AllHeaders == [h \in HeaderNames |-> "v"]

\* all five headers, or all but one, or all with one of them empty
HeaderSets ==
    {AllHeaders}
        \cup { [h \in HeaderNames \ {m} |-> "v"] : m \in HeaderNames }
        \cup { [AllHeaders EXCEPT ![m] = ""] : m \in HeaderNames }

EventTypes ==
    { "BILLING.SUBSCRIPTION.ACTIVATED", "PAYMENT.SALE.COMPLETED",
      "BILLING.SUBSCRIPTION.CANCELLED", "BILLING.SUBSCRIPTION.SUSPENDED",
      "BILLING.SUBSCRIPTION.PAYMENT.FAILED", "CUSTOMER.DISPUTE.CREATED" }

UserIds == {"u1", "u2"}

ResourceIds == { <<"I", "-", "7">>, <<"P", "A", "Y">>, <<"I">> }

PlanIds == {"P-LM", "P-ZZ"}

Resources ==
    { Prop(hasC, "custom_id", c) @@ Prop(hasI, "id", i)
          @@ Prop(hasB, "billing_agreement_id", "B-1") @@ Prop(hasP, "plan_id", p) :
        hasC \in BOOLEAN, c \in UserIds \cup {""}, hasI \in BOOLEAN,
        i \in ResourceIds, hasB \in BOOLEAN, hasP \in BOOLEAN, p \in PlanIds }

\* parsed bodies: an event with a resource object, or with none
Events ==
    { ("event_type" :> t) @@ Prop(hasR, "resource", r) :
        t \in EventTypes, hasR \in BOOLEAN, r \in Resources }

NoEvent == EmptyObject

\* req.rawBody is a Buffer or undefined; of a Buffer the model keeps its length
\* class, whether its text is a JSON document, and the value the text encodes
NoBody == [type |-> "undefined"]

Buffer(length, json, value) ==
    [type |-> "Buffer", length |-> length, json |-> json, value |-> value]

JsonBodies == { Buffer(1, TRUE, e) : e \in Events }

BadBodies == { NoBody, Buffer(0, FALSE, NoEvent), Buffer(1, FALSE, NoEvent) }

\* req.body, as the platform parsed it
ParsedBody(raw) == IF raw.type = "Buffer" /\ raw.json THEN raw.value ELSE NoEvent

Request(method, headers, raw) ==
    [method |-> method, headers |-> headers, rawBody |-> raw,
     body |-> ParsedBody(raw)]

SampleBodies ==
    BadBodies \cup
        { Buffer(1, TRUE, ("event_type" :> "BILLING.SUBSCRIPTION.CANCELLED")
                              @@ ("resource" :> ("custom_id" :> "u1"))) }

\* every body with the full header set; the sample bodies with every header set
\* and every method
Requests ==
    { Request("POST", AllHeaders, b) : b \in JsonBodies \cup BadBodies }
        \cup { Request(m, h, b) : m \in Methods, h \in HeaderSets, b \in SampleBodies }

NoRequest == Request("GET", AllHeaders, NoBody)

(***************************************************************************)
(* The user store: a record per existing key, a record a map of fields     *)
(***************************************************************************)
StatusField == "subscription.status"
PlanField == "subscription.plan"
ValidityField == "subscription.validity"

InitialRecords ==
    { ("email" :> "a@example.org") @@ (StatusField :> "unknown")
          @@ (PlanField :> "Free") @@ (ValidityField :> "N/A"),
      ("email" :> "a@example.org") @@ (StatusField :> "active")
          @@ (PlanField :> "Pro Plan (Yearly)") @@ (ValidityField :> "2026-01-01") }

\* the record of a user no event names
OtherRecord ==
    ("email" :> "b@example.org") @@ (StatusField :> "active")
        @@ (PlanField :> "Pro Plan (Monthly)") @@ (ValidityField :> "2026-06-01")

\* "u1" has a record, "u2" has none, "u0" is a user no event names
InitialStores == { ("u0" :> OtherRecord) @@ ("u1" :> r) : r \in InitialRecords }

\* a variant that guards the transition: a cancelled record stays as it is
FirestoreUpdateGuarded(db, key, data) ==
    [db EXCEPT ![key] = IF Get(@, StatusField) = "cancelled" THEN @ ELSE data @@ @]

\* a variant in which a field the document has keeps its value
FirestoreUpdateKeepExisting(db, key, data) == [db EXCEPT ![key] = db[key] @@ data]

\* a variant that replaces the document by the data
FirestoreUpdateReplace(db, key, data) == [db EXCEPT ![key] = data]

\* DocumentReference.update(data): fails when the document does not exist,
\* otherwise sets the named fields and keeps the others
FirestoreUpdate(db, key, data) == [db EXCEPT ![key] = data @@ db[key]]

(***************************************************************************)
(* paypalWebhookHandler, piece by piece                                    *)
(***************************************************************************)
\* a variant that refuses GET alone
MethodNotAllowedGetOnly(r) == r.method = "GET"

\* if (req.method !== "POST")
MethodNotAllowed(r) == r.method # "POST"

\* !requestBody: undefined is falsy, a Buffer is an object and so truthy
\* whatever its length
RequestBodyMissing(raw) == raw.type = "undefined"

\* if (!transmissionId || ... || !requestBody || !webhookId)
VerificationInputMissing(r, cfg) ==
    \/ \E h \in HeaderNames : Falsy(Get(r.headers, h))
    \/ RequestBodyMissing(r.rawBody)
    \/ Falsy(webhookId(cfg))

\* JSON.parse(requestBody.toString('utf8')) throws a SyntaxError when the text
\* is no JSON document (the empty text included)
JSONParseThrows(raw) == ~raw.json

\* what client.execute can do: resolve with a verification_status, or reject
VerificationOutcomes == {"SUCCESS", "FAILURE", "THROW"}

\* a variant whose catch block swallows the error and goes on
VerificationResponseSwallow(outcome) ==
    IF outcome \in {"SUCCESS", "THROW"} THEN 0 ELSE 400

\* the try/catch around client.execute: the status sent, 0 when none is sent
VerificationResponse(outcome) ==
    IF outcome = "THROW" THEN 500
    ELSE IF outcome # "SUCCESS" THEN 400
    ELSE 0

\* a variant that tests for undefined alone
UserIdMissingUndefinedOnly(resource) == Get(resource, "custom_id") = Undefined

\* const firebaseUserId = resource.custom_id; if (!firebaseUserId)
UserIdMissing(resource) == Falsy(Get(resource, "custom_id"))

\* a variant without the fallback to the live value
ConfiguredPlanNoFallback(cfg, live, sandbox) ==
    IF cfg["NODE_ENV"] = "production" THEN Get(cfg, live) ELSE Get(cfg, sandbox)

\* a configured plan id, by the live/sandbox rule
ConfiguredPlan(cfg, live, sandbox) ==
    IF cfg["NODE_ENV"] = "production"
    THEN Get(cfg, live)
    ELSE OrElse(Get(cfg, sandbox), Get(cfg, live))

\* let planName = 'Unknown Plan'; if (resource.plan_id) { ... }
planName(cfg, resource) ==
    LET plan_id == Get(resource, "plan_id") IN
    IF Falsy(plan_id) THEN "Unknown Plan"
    ELSE IF plan_id = ConfiguredPlan(cfg, "live_plan_monthly", "sandbox_plan_monthly")
         THEN "Pro Plan (Monthly)"
    ELSE IF plan_id = ConfiguredPlan(cfg, "live_plan_yearly", "sandbox_plan_yearly")
         THEN "Pro Plan (Yearly)"
    ELSE IF plan_id = ConfiguredPlan(cfg, "live_plan_trial", "sandbox_plan_trial")
         THEN "Pro Trial"
    ELSE "Unknown Plan"

\* a variant that tests the first character of resource.id alone
IsSubscriptionPaymentLoose(resource) ==
    \/ ~Falsy(Get(resource, "billing_agreement_id"))
    \/ /\ "id" \in DOMAIN resource
       /\ StartsWith(resource["id"], <<"I">>)

\* resource.billing_agreement_id || resource.id?.startsWith('I-')
IsSubscriptionPayment(resource) ==
    \/ ~Falsy(Get(resource, "billing_agreement_id"))
    \/ /\ "id" \in DOMAIN resource
       /\ StartsWith(resource["id"], <<"I", "-">>)

\* the subscriptionUpdate of the activating branch
ActiveUpdate(cfg, resource) ==
    (StatusField :> "active")
        @@ Prop(~Falsy(Get(resource, "plan_id")), PlanField, planName(cfg, resource))

\* a variant that also writes the plan name
CancelledUpdateWithPlan ==
    (StatusField :> "cancelled") @@ (ValidityField :> "Cancelled")
        @@ (PlanField :> "Unknown Plan")

CancelledUpdate == (StatusField :> "cancelled") @@ (ValidityField :> "Cancelled")

\* a variant that writes the status only
PaymentFailedUpdateStatusOnly == (StatusField :> "payment_failed")

\* the subscriptionUpdate of the suspension / failed payment branch
PaymentFailedUpdate ==
    (StatusField :> "payment_failed") @@ (ValidityField :> "Payment Issue")

Ignore == [update |-> FALSE, data |-> EmptyObject]

Update(data) == [update |-> TRUE, data |-> data]

\* switch (eventType): the update to issue, or none (the handler answers 200)
DispatchEvent(cfg, eventType, resource) ==
    IF eventType \in {"BILLING.SUBSCRIPTION.ACTIVATED", "PAYMENT.SALE.COMPLETED"}
    THEN IF IsSubscriptionPayment(resource)
         THEN Update(ActiveUpdate(cfg, resource))
         ELSE Ignore
    ELSE IF eventType = "BILLING.SUBSCRIPTION.CANCELLED"
    THEN Update(CancelledUpdate)
    ELSE IF eventType \in {"BILLING.SUBSCRIPTION.SUSPENDED",
                           "BILLING.SUBSCRIPTION.PAYMENT.FAILED"}
    THEN Update(PaymentFailedUpdate)
    ELSE Ignore

\* a variant whose catch block answers 200 as well
UpdateResponseAlwaysOK(error) == 200

\* the try/catch around userDocRef.update: the status sent
UpdateResponse(error) == IF error THEN 500 ELSE 200

(***************************************************************************)
(* State machine                                                           *)
(***************************************************************************)
\* no instance has a request in hand
HandlersIdle ==
    /\ pc = [i \in Instances |-> "idle"]
    /\ req = [i \in Instances |-> NoRequest]
    /\ res = [i \in Instances |-> << >>]
    /\ verifyCalls = [i \in Instances |-> 0]
    /\ updateCalls = [i \in Instances |-> 0]
    /\ verification = [i \in Instances |-> "none"]
    /\ processed = [i \in Instances |-> FALSE]
    /\ subscriptionUpdate = [i \in Instances |-> EmptyObject]
    /\ updateError = [i \in Instances |-> FALSE]

\* no provider event is followed, nothing is recorded
ProviderIdle ==
    /\ outbox = NoEvent
    /\ faults = 0
    /\ commits = << >>
    /\ store0 = store
    /\ acked = 0
    /\ snapshot = store

\* a Response; the value undefined; a rejected promise
Response(url, status, version) ==
    [kind |-> "response", url |-> url, status |-> status, version |-> version]

NoResponse == [kind |-> "undefined", url |-> "", status |-> 0, version |-> ""]

Rejected == [kind |-> "rejected", url |-> "", status |-> 0, version |-> ""]

NoFetch == [request |-> [method |-> "GET", url |-> ""], response |-> NoResponse]

\* the service worker script is not registered
WorkerIdle ==
    /\ swState = "parsed"
    /\ caches = EmptyObject
    /\ fetches = 0
    /\ fetched = NoFetch

Init ==
    /\ config \in Configs
    /\ store \in InitialStores
    /\ delivered = 0
    /\ HandlersIdle
    /\ ProviderIdle
    /\ WorkerIdle

\* res.status(code).send(...) and return
Respond(i, code) ==
    /\ res' = [res EXCEPT ![i] = Append(@, code)]
    /\ pc' = [pc EXCEPT ![i] = "done"]

\* an exception leaves the handler: nothing is sent
Throw(i) ==
    /\ pc' = [pc EXCEPT ![i] = "threw"]
    /\ UNCHANGED res

\* the platform invokes an idle instance with a request; the handler runs up to
\* `await client.execute(verificationRequest)`
Receive(i, r) ==
    /\ pc[i] = "idle"
    /\ delivered < MaxRequests
    /\ delivered' = delivered + 1
    /\ req' = [req EXCEPT ![i] = r]
    /\ UNCHANGED << config, store, updateCalls, verification, processed,
                    subscriptionUpdate, updateError >>
    /\ IF MethodNotAllowed(r)
       THEN Respond(i, 405) /\ UNCHANGED verifyCalls
       ELSE IF VerificationInputMissing(r, config)
       THEN Respond(i, 400) /\ UNCHANGED verifyCalls
       ELSE IF JSONParseThrows(r.rawBody)
       THEN Throw(i) /\ UNCHANGED verifyCalls
       ELSE /\ verifyCalls' = [verifyCalls EXCEPT ![i] = @ + 1]
            /\ pc' = [pc EXCEPT ![i] = "verifying"]
            /\ UNCHANGED res

\* client.execute settles; the handler runs up to `await userDocRef.update(...)`
VerifyReturn(i, outcome) ==
    /\ pc[i] = "verifying"
    /\ verification' = [verification EXCEPT ![i] = outcome]
    /\ UNCHANGED << config, store, delivered, req, verifyCalls, updateError >>
    /\ IF VerificationResponse(outcome) # 0
       THEN /\ Respond(i, VerificationResponse(outcome))
            /\ UNCHANGED << processed, subscriptionUpdate, updateCalls >>
       ELSE LET event == req[i].body IN
            /\ processed' = [processed EXCEPT ![i] = TRUE]
            /\ IF "resource" \notin DOMAIN event
               THEN \* resource.custom_id of undefined: TypeError
                    /\ Throw(i)
                    /\ UNCHANGED << subscriptionUpdate, updateCalls >>
               ELSE LET resource == event["resource"]
                        d == DispatchEvent(config, Get(event, "event_type"), resource)
                    IN  IF UserIdMissing(resource) \/ ~d.update
                        THEN /\ Respond(i, 200)
                             /\ UNCHANGED << subscriptionUpdate, updateCalls >>
                        ELSE /\ subscriptionUpdate' =
                                    [subscriptionUpdate EXCEPT ![i] = d.data]
                             /\ updateCalls' = [updateCalls EXCEPT ![i] = @ + 1]
                             /\ pc' = [pc EXCEPT ![i] = "updating"]
                             /\ UNCHANGED res

\* the store executes the partial update of users/<custom_id>: it fails when the
\* record is missing or on a store fault, and then changes nothing
StoreUpdate(i, fault) ==
    /\ pc[i] = "updating"
    /\ LET firebaseUserId == req[i].body["resource"]["custom_id"] IN
       IF firebaseUserId \in DOMAIN store /\ ~fault
       THEN /\ store' = FirestoreUpdate(store, firebaseUserId, subscriptionUpdate[i])
            /\ updateError' = [updateError EXCEPT ![i] = FALSE]
       ELSE /\ store' = store
            /\ updateError' = [updateError EXCEPT ![i] = TRUE]
    /\ pc' = [pc EXCEPT ![i] = "updated"]
    /\ UNCHANGED << config, delivered, req, res, verifyCalls, updateCalls,
                    verification, processed, subscriptionUpdate >>

\* userDocRef.update settles; the handler answers
UpdateReturn(i) ==
    /\ pc[i] = "updated"
    /\ Respond(i, UpdateResponse(updateError[i]))
    /\ UNCHANGED << config, store, delivered, req, verifyCalls, updateCalls,
                    verification, processed, subscriptionUpdate, updateError >>

\* the invocation is over (answered, or ended by an exception): its locals
\* are gone and the instance is free for the next request
Return(i) ==
    /\ pc[i] \in {"done", "threw"}
    /\ pc' = [pc EXCEPT ![i] = "idle"]
    /\ req' = [req EXCEPT ![i] = NoRequest]
    /\ res' = [res EXCEPT ![i] = << >>]
    /\ verifyCalls' = [verifyCalls EXCEPT ![i] = 0]
    /\ updateCalls' = [updateCalls EXCEPT ![i] = 0]
    /\ verification' = [verification EXCEPT ![i] = "none"]
    /\ processed' = [processed EXCEPT ![i] = FALSE]
    /\ subscriptionUpdate' = [subscriptionUpdate EXCEPT ![i] = EmptyObject]
    /\ updateError' = [updateError EXCEPT ![i] = FALSE]
    /\ UNCHANGED << config, store, delivered >>

Next ==
    \E i \in SeqInstances :
        \/ \E r \in Requests :
              Receive(i, r) /\ UNCHANGED << providerVars, workerVars >>
        \/ \E outcome \in VerificationOutcomes :
              VerifyReturn(i, outcome) /\ UNCHANGED << providerVars, workerVars >>
        \/ \E fault \in BOOLEAN :
              StoreUpdate(i, fault) /\ UNCHANGED << providerVars, workerVars >>
        \/ UpdateReturn(i) /\ UNCHANGED << providerVars, workerVars >>
        \/ Return(i) /\ UNCHANGED << providerVars, workerVars >>

Spec == Init /\ [][Next]_vars

(***************************************************************************)
(* Plan-name resolution: activating events with every plan id, under       *)
(* configurations that set, share or leave out the plan ids                *)
(***************************************************************************)
WebhookIds == ("webhook_id" :> "WH-LIVE") @@ ("sandbox_webhook_id" :> "WH-SB")

\* one id for the three live plans
LivePlansShared ==
    ("live_plan_monthly" :> "P-LM") @@ ("live_plan_yearly" :> "P-LM")
        @@ ("live_plan_trial" :> "P-LM")

\* the sandbox yearly and trial plans share an id, the monthly one is unset
SandboxPlansPartial ==
    ("sandbox_plan_yearly" :> "P-SY") @@ ("sandbox_plan_trial" :> "P-SY")

PlanConfigs ==
    { ("NODE_ENV" :> env) @@ WebhookIds @@ live @@ sandbox :
        env \in {"production", "development"},
        live \in {LivePlans, LivePlansShared, EmptyObject},
        sandbox \in {SandboxPlans, SandboxPlansPartial, EmptyObject} }

AllPlanIds == {"P-LM", "P-LY", "P-LT", "P-SM", "P-SY", "P-ST", "P-ZZ", ""}

PlanEvents ==
    { ("event_type" :> t)
          @@ ("resource" :> (("custom_id" :> "u1") @@ ("id" :> <<"I", "-", "7">>)
                                @@ Prop(hasP, "plan_id", p))) :
        t \in {"BILLING.SUBSCRIPTION.ACTIVATED", "PAYMENT.SALE.COMPLETED"},
        hasP \in BOOLEAN, p \in AllPlanIds }

PlanRequests == { Request("POST", AllHeaders, Buffer(1, TRUE, e)) : e \in PlanEvents }

InitPlan ==
    /\ config \in PlanConfigs
    /\ store \in InitialStores
    /\ delivered = 0
    /\ HandlersIdle
    /\ ProviderIdle
    /\ WorkerIdle

NextPlan ==
    \E i \in SeqInstances :
        \/ \E r \in PlanRequests :
              Receive(i, r) /\ UNCHANGED << providerVars, workerVars >>
        \/ \E outcome \in VerificationOutcomes :
              VerifyReturn(i, outcome) /\ UNCHANGED << providerVars, workerVars >>
        \/ \E fault \in BOOLEAN :
              StoreUpdate(i, fault) /\ UNCHANGED << providerVars, workerVars >>
        \/ UpdateReturn(i) /\ UNCHANGED << providerVars, workerVars >>
        \/ Return(i) /\ UNCHANGED << providerVars, workerVars >>

SpecPlan == InitPlan /\ [][NextPlan]_vars

(***************************************************************************)
(* Vocabulary of the claims                                                *)
(***************************************************************************)
Statuses == {200, 400, 405, 500}

\* the invocation has ended with exactly this one response
Answered(i, code) == pc[i] = "done" /\ res[i] = << code >>

\* instance i holds a request whose verification returned SUCCESS
Verified(i) == verification[i] = "SUCCESS"

Event(i) == req[i].body

EventType(i) == Get(Event(i), "event_type")

HasResource(i) == "resource" \in DOMAIN Event(i)

Resource(i) == Event(i)["resource"]

\* the event names a user: resource.custom_id is present and not empty
HasCustomId(i) ==
    /\ HasResource(i)
    /\ "custom_id" \in DOMAIN Resource(i)
    /\ Resource(i)["custom_id"] # ""

\* neither a billing_agreement_id nor an id starting with "I-"
NotASubscriptionPayment(resource) ==
    /\ Get(resource, "billing_agreement_id") \in {Undefined, ""}
    /\ \/ "id" \notin DOMAIN resource
       \/ Len(resource["id"]) < 2
       \/ resource["id"][1] # "I"
       \/ resource["id"][2] # "-"

RecognizedTypes == EventTypes \ {"CUSTOMER.DISPUTE.CREATED"}

\* the dispatch table of the specification: the events that call for a mutation
MutationDue(i) ==
    /\ HasCustomId(i)
    /\ \/ EventType(i) \in RecognizedTypes \ {"PAYMENT.SALE.COMPLETED"}
       \/ /\ EventType(i) = "PAYMENT.SALE.COMPLETED"
          /\ ~NotASubscriptionPayment(Resource(i))

\* the request passes the header / body / webhook-id gate: a POST with the five
\* headers, a raw body and a webhook id, none of them empty
PassesGate(i) ==
    /\ req[i].method = "POST"
    /\ \A h \in HeaderNames : Get(req[i].headers, h) \notin {Undefined, ""}
    /\ req[i].rawBody.type = "Buffer"
    /\ req[i].rawBody.length > 0
    /\ webhookId(config) \notin {Undefined, ""}

(***************************************************************************)
(* Claims                                                                  *)
(***************************************************************************)
\* C1: every failure is caught in the handler: no exception leaves it, and it
\* ends by sending exactly one response with status 200, 400, 405 or 500.
\* Refuted: JSON.parse of the raw body (line 61) and resource.custom_id of an
\* event without a resource (line 90) are outside every try block.
C1_EveryFailureBecomesOneStatus ==
    \A i \in Instances :
        /\ pc[i] # "threw"
        /\ pc[i] = "done" => Len(res[i]) = 1 /\ res[i][1] \in Statuses

\* C2: a verified BILLING.SUBSCRIPTION.ACTIVATED event with a non-empty
\* custom_id, whatever its billing_agreement_id and id, leads to a store update
\* that sets subscription.status to "active", and to 200 when it succeeds.
\* Refuted: the activating branch tests billing_agreement_id / id for
\* ACTIVATED too and answers 200 without an update when the test fails.
C2_ActivatedSetsActive ==
    \A i \in Instances :
        (Verified(i) /\ HasCustomId(i)
            /\ EventType(i) = "BILLING.SUBSCRIPTION.ACTIVATED")
        => /\ updateCalls[i] = 1
           /\ Get(subscriptionUpdate[i], StatusField) = "active"
           /\ (pc[i] = "done" /\ ~updateError[i]) => res[i] = << 200 >>

\* C3: a request that passes the gate makes exactly one verification call, a
\* verified event with a custom_id and a handled type makes exactly one store
\* update, no call is repeated and no update is made in any other case.
\* Refuted: a raw body that is no JSON document passes the gate and ends the
\* handler before the verification call; an ACTIVATED event without
\* billing_agreement_id / "I-" id gets no update.
C3_ExactlyOneCallEach ==
    \A i \in Instances :
        /\ verifyCalls[i] <= 1
        /\ updateCalls[i] <= 1
        /\ updateCalls[i] = 1 => Verified(i) /\ MutationDue(i)
        /\ verifyCalls[i] = 1 => PassesGate(i)
        /\ pc[i] \in {"done", "threw"} =>
              /\ PassesGate(i) => verifyCalls[i] = 1
              /\ (Verified(i) /\ MutationDue(i)) => updateCalls[i] = 1

\* C4: a store update is attempted only after the verification call of the
\* same request returned SUCCESS; a non-SUCCESS status is answered 400, a
\* throwing verification call 500, and in both cases there is no store update
\* and the event body is not processed.
C4_UpdateOnlyAfterVerified ==
    \A i \in Instances :
        /\ verification[i] = "FAILURE" => Answered(i, 400)
        /\ verification[i] = "THROW" => Answered(i, 500)
        /\ verification[i] # "SUCCESS" =>
              /\ updateCalls[i] = 0
              /\ ~processed[i]
              /\ subscriptionUpdate[i] = EmptyObject
        /\ pc[i] \in {"updating", "updated"} => Verified(i)

\* a verification that did not succeed on an event that would have been applied
C4_Witness ==
    \E i \in Instances :
        /\ verification[i] = "THROW"
        /\ pc[i] = "done"
        /\ MutationDue(i)
        /\ Resource(i)["custom_id"] \in DOMAIN store
        /\ delivered = 2

\* C5: a request whose method is not POST is answered 405, whatever its
\* headers and body, and neither the verification service nor the store is
\* called.
C5_NonPostIs405 ==
    \A i \in Instances :
        (pc[i] # "idle" /\ req[i].method # "POST")
        => /\ Answered(i, 405)
           /\ verifyCalls[i] = 0
           /\ updateCalls[i] = 0

\* a PUT request that a POST would have carried through the gate
C5_Witness ==
    \E i \in Instances :
        /\ req[i].method = "PUT"
        /\ pc[i] = "done"
        /\ req[i].headers = AllHeaders
        /\ req[i].rawBody.type = "Buffer"
        /\ req[i].rawBody.json
        /\ ~Falsy(webhookId(config))

\* C6: a POST request in which one of the five headers, the raw body or the
\* configured webhook id is missing or empty is answered 400 without a
\* verification call or a store update.
\* Refuted: an empty raw body is a Buffer of length 0, which `!requestBody`
\* lets through; JSON.parse then throws.
C6_MissingInputIs400 ==
    \A i \in Instances :
        (/\ pc[i] # "idle"
         /\ req[i].method = "POST"
         /\ \/ \E h \in HeaderNames : Get(req[i].headers, h) \in {Undefined, ""}
            \/ req[i].rawBody.type = "undefined"
            \/ req[i].rawBody.type = "Buffer" /\ req[i].rawBody.length = 0
            \/ webhookId(config) \in {Undefined, ""})
        => /\ Answered(i, 400)
           /\ verifyCalls[i] = 0
           /\ updateCalls[i] = 0

C8_UnhandledIs200 ==
    \A i \in Instances :
        (/\ Verified(i)
         /\ HasCustomId(i)
         /\ \/ EventType(i) \notin RecognizedTypes
            \/ /\ EventType(i) = "PAYMENT.SALE.COMPLETED"
               /\ NotASubscriptionPayment(Resource(i)))
        => /\ Answered(i, 200)
           /\ updateCalls[i] = 0
           /\ subscriptionUpdate[i] = EmptyObject

\* a verified one-off payment whose id is "I", for an existing user
C8_Witness ==
    \E i \in Instances :
        /\ Verified(i)
        /\ HasCustomId(i)
        /\ Resource(i)["custom_id"] \in DOMAIN store
        /\ EventType(i) = "PAYMENT.SALE.COMPLETED"
        /\ "id" \in DOMAIN Resource(i)
        /\ Resource(i)["id"] = <<"I">>
        /\ "billing_agreement_id" \notin DOMAIN Resource(i)
        /\ pc[i] = "done"

\* C9: for a verified event with a custom_id and a handled type the response
\* reflects the store update: 500 when the update fails, 200 only after it
\* succeeded, never 200 while the mutation has not taken effect.
\* Refuted: an ACTIVATED event without billing_agreement_id / "I-" id is
\* answered 200 although no update was made.
C9_ResponseReflectsUpdate ==
    \A i \in Instances :
        (Verified(i) /\ MutationDue(i) /\ pc[i] = "done")
        => /\ updateError[i] => res[i] = << 500 >>
           /\ res[i] = << 200 >> =>
                 /\ updateCalls[i] = 1
                 /\ ~updateError[i]
                 /\ Resource(i)["custom_id"] \in DOMAIN store
                 /\ \A f \in DOMAIN subscriptionUpdate[i] :
                       store[Resource(i)["custom_id"]][f] = subscriptionUpdate[i][f]

\* C10: the update of a CANCELLED event with a custom_id is exactly
\* {status: "cancelled", validity: "Cancelled"}, that of a SUSPENDED or
\* PAYMENT.FAILED event exactly {status: "payment_failed", validity:
\* "Payment Issue"}; subscription.plan is never part of them.
C10_NonActivatingPayloads ==
    \A i \in Instances :
        (Verified(i) /\ HasCustomId(i))
        => /\ EventType(i) = "BILLING.SUBSCRIPTION.CANCELLED" =>
                 /\ updateCalls[i] = 1
                 /\ DOMAIN subscriptionUpdate[i] = {StatusField, ValidityField}
                 /\ subscriptionUpdate[i][StatusField] = "cancelled"
                 /\ subscriptionUpdate[i][ValidityField] = "Cancelled"
           /\ EventType(i) \in {"BILLING.SUBSCRIPTION.SUSPENDED",
                                "BILLING.SUBSCRIPTION.PAYMENT.FAILED"} =>
                 /\ updateCalls[i] = 1
                 /\ DOMAIN subscriptionUpdate[i] = {StatusField, ValidityField}
                 /\ subscriptionUpdate[i][StatusField] = "payment_failed"
                 /\ subscriptionUpdate[i][ValidityField] = "Payment Issue"

\* a cancellation that carries a plan_id, its update issued
C10_Witness ==
    \E i \in Instances :
        /\ Verified(i)
        /\ HasCustomId(i)
        /\ EventType(i) = "BILLING.SUBSCRIPTION.CANCELLED"
        /\ "plan_id" \in DOMAIN Resource(i)
        /\ pc[i] = "updating"

(***************************************************************************)
(* The provider: it delivers one event, delivers it again after a 500 (and *)
(* may deliver it again after a 200); the verification service and the     *)
(* store fail at most MaxFaults times in all                               *)
(***************************************************************************)
ProviderConfigs ==
    { ("NODE_ENV" :> "production") @@ WebhookIds @@ LivePlans @@ SandboxPlans,
      ("NODE_ENV" :> "development") @@ ("webhook_id" :> "WH-LIVE") @@ LivePlans }

ProviderRecords ==
    InitialRecords \cup
        { ("email" :> "a@example.org") @@ (StatusField :> "cancelled")
              @@ (PlanField :> "Pro Plan (Monthly)") @@ (ValidityField :> "Cancelled"),
          ("email" :> "a@example.org") @@ (StatusField :> "payment_failed")
              @@ (PlanField :> "Pro Trial") @@ (ValidityField :> "Payment Issue") }

ProviderStores == { ("u0" :> OtherRecord) @@ ("u1" :> r) : r \in ProviderRecords }

\* provider events: they have a resource that names a user
ProviderEvents ==
    { ("event_type" :> t)
          @@ ("resource" :> (("custom_id" :> c) @@ Prop(hasI, "id", i)
                                @@ Prop(hasB, "billing_agreement_id", "B-1")
                                @@ Prop(hasP, "plan_id", "P-LM"))) :
        t \in EventTypes, c \in UserIds, hasI \in BOOLEAN,
        i \in {<<"I", "-", "7">>, <<"P", "A", "Y">>}, hasB \in BOOLEAN,
        hasP \in BOOLEAN }

InitProvider ==
    /\ config \in ProviderConfigs
    /\ store \in ProviderStores
    /\ delivered = 0
    /\ HandlersIdle
    /\ outbox \in ProviderEvents
    /\ faults = MaxFaults
    /\ commits = << >>
    /\ store0 = store
    /\ acked = 0
    /\ snapshot = store
    /\ WorkerIdle

\* a failure of the verification service or of the store uses up the budget
Fault(failing) ==
    IF failing THEN faults > 0 /\ faults' = faults - 1 ELSE UNCHANGED faults

\* the provider sees instance i answer: a 200 closes the delivery; the store
\* as it was at the first 200 is kept
Ack(i) ==
    IF pc'[i] = "done" /\ res'[i] = << 200 >>
    THEN /\ acked' = acked + 1
         /\ snapshot' = IF acked = 0 THEN store' ELSE snapshot
    ELSE UNCHANGED << acked, snapshot >>

\* the store commits of instance i, in the order the store made them
Commit(i) ==
    IF pc'[i] = "updated" /\ ~updateError'[i]
    THEN commits' = Append(commits, [key |-> req[i].body["resource"]["custom_id"],
                                     data |-> subscriptionUpdate[i]])
    ELSE UNCHANGED commits

NextProvider ==
    \E i \in SeqInstances :
        \/ /\ Receive(i, Request("POST", AllHeaders, Buffer(1, TRUE, outbox)))
           /\ UNCHANGED << providerVars, workerVars >>
        \/ \E outcome \in {"SUCCESS", "THROW"} :
              /\ VerifyReturn(i, outcome)
              /\ Fault(outcome = "THROW")
              /\ Ack(i)
              /\ UNCHANGED << outbox, commits, store0, workerVars >>
        \/ \E fault \in BOOLEAN :
              /\ StoreUpdate(i, fault)
              /\ Fault(fault)
              /\ Commit(i)
              /\ UNCHANGED << outbox, store0, acked, snapshot, workerVars >>
        \/ /\ UpdateReturn(i)
           /\ Ack(i)
           /\ UNCHANGED << outbox, faults, commits, store0, workerVars >>
        \/ Return(i) /\ UNCHANGED << providerVars, workerVars >>

\* the provider keeps delivering and the platform keeps running the handler
SpecProvider == InitProvider /\ [][NextProvider]_vars /\ WF_vars(NextProvider)

(***************************************************************************)
(* Concurrent invocations: the platform runs an instance per request, and  *)
(* the steps of the instances interleave at their awaits                   *)
(***************************************************************************)
ConcurrentEvents ==
    { ("event_type" :> "BILLING.SUBSCRIPTION.CANCELLED")
          @@ ("resource" :> ("custom_id" :> "u1")),
      ("event_type" :> "BILLING.SUBSCRIPTION.PAYMENT.FAILED")
          @@ ("resource" :> ("custom_id" :> "u1")),
      ("event_type" :> "BILLING.SUBSCRIPTION.ACTIVATED")
          @@ ("resource" :> (("custom_id" :> "u1") @@ ("billing_agreement_id" :> "B-1")
                                @@ ("plan_id" :> "P-LM"))),
      ("event_type" :> "PAYMENT.SALE.COMPLETED")
          @@ ("resource" :> (("custom_id" :> "u1") @@ ("id" :> <<"I", "-", "7">>))),
      ("event_type" :> "BILLING.SUBSCRIPTION.CANCELLED")
          @@ ("resource" :> ("custom_id" :> "u2")) }

ConcurrentRequests ==
    { Request("POST", AllHeaders, Buffer(1, TRUE, e)) : e \in ConcurrentEvents }

InitConcurrent ==
    /\ config \in ProviderConfigs
    /\ store \in InitialStores
    /\ delivered = 0
    /\ HandlersIdle
    /\ ProviderIdle
    /\ WorkerIdle

NextConcurrent ==
    \E i \in Instances :
        \/ \E r \in ConcurrentRequests :
              Receive(i, r) /\ UNCHANGED << providerVars, workerVars >>
        \/ \E outcome \in VerificationOutcomes :
              VerifyReturn(i, outcome) /\ UNCHANGED << providerVars, workerVars >>
        \/ \E fault \in BOOLEAN :
              /\ StoreUpdate(i, fault)
              /\ Commit(i)
              /\ UNCHANGED << outbox, faults, store0, acked, snapshot, workerVars >>
        \/ UpdateReturn(i) /\ UNCHANGED << providerVars, workerVars >>
        \/ Return(i) /\ UNCHANGED << providerVars, workerVars >>

SpecConcurrent == InitConcurrent /\ [][NextConcurrent]_vars

(***************************************************************************)
(* The service worker (sw.js)                                              *)
(***************************************************************************)
CACHE_NAME == "meno-guide-cache-v1"

urlsToCache ==
    << "/", "/index.html", "/favicon-96x96.png", "/favicon.svg", "/favicon.ico",
       "/apple-touch-icon.png", "/site.webmanifest" >>

\* the URLs of the list
CachedUrls == { urlsToCache[n] : n \in 1..Len(urlsToCache) }

\* what the site serves changes with its deployments
Versions == {"v1", "v2"}

\* requests of the controlled pages: listed URLs and others, reads and writes
FetchRequests ==
    [method : {"GET", "POST"},
     url : {"/", "/index.html", "/favicon.ico", "/site.webmanifest", "/api/articles",
            "/index.html?ref=1"}]

\* fetch(request): the network answers, with what the site serves now or with
\* an error status, or the fetch fails
NetworkResults(request) ==
    { Response(request.url, 200, v) : v \in Versions }
        \cup { Response(request.url, 404, ""), Rejected }

\* caches.open(name): the cache of that name, created empty when there is none
CachesOpen(storage, name) ==
    IF name \in DOMAIN storage THEN storage ELSE storage @@ (name :> EmptyObject)

\* cache.addAll(urls) when every fetch gave an ok response: an entry per URL,
\* replacing the entry the URL had
CacheAddAll(entries, version) ==
    [u \in CachedUrls |-> Response(u, 200, version)] @@ entries

\* a variant that never finds a match
CachesMatchNothing(storage, request) == NoResponse

\* caches.match(request): the entry of a cache of the origin for the URL of a
\* GET request, undefined when there is none
CachesMatch(storage, request) ==
    LET holding == { n \in DOMAIN storage : request.url \in DOMAIN storage[n] } IN
    IF request.method = "GET" /\ holding # {}
    THEN storage[CHOOSE n \in holding : TRUE][request.url]
    ELSE NoResponse

\* the two install listeners: the cache is opened and filled with the list,
\* all of it or, when a fetch of addAll fails, none of it and the installation
\* fails; skipWaiting lets the installed worker activate at once. A failed
\* registration is tried again on a later page load
Install(ok, version) ==
    /\ swState \in {"parsed", "redundant"}
    /\ IF ok
       THEN /\ caches' = [CachesOpen(caches, CACHE_NAME) EXCEPT
                              ![CACHE_NAME] = CacheAddAll(@, version)]
            /\ swState' = "installed"
       ELSE /\ caches' = CachesOpen(caches, CACHE_NAME)
            /\ swState' = "redundant"
    /\ UNCHANGED << fetches, fetched >>

\* the activate listener: the worker claims the open pages
Activate ==
    /\ swState = "installed"
    /\ swState' = "activated"
    /\ UNCHANGED << caches, fetches, fetched >>

\* the fetch listener: respondWith the match, or else what fetch gives
Fetch(request, result) ==
    /\ swState = "activated"
    /\ fetches < MaxFetches
    /\ LET response == CachesMatch(caches, request) IN
       IF response.kind # "undefined"
       THEN /\ fetched' = [request |-> request, response |-> response]
            /\ UNCHANGED fetches
       ELSE /\ fetched' = [request |-> request, response |-> result]
            /\ fetches' = fetches + 1
    /\ UNCHANGED << swState, caches >>

ProductionConfig ==
    ("NODE_ENV" :> "production") @@ WebhookIds @@ LivePlans @@ SandboxPlans

InitWorker ==
    /\ config = ProductionConfig
    /\ store = ("u0" :> OtherRecord)
    /\ delivered = 0
    /\ HandlersIdle
    /\ ProviderIdle
    /\ WorkerIdle

NextWorker ==
    \/ \E ok \in BOOLEAN, version \in Versions :
          Install(ok, version) /\ UNCHANGED << handlerVars, providerVars >>
    \/ Activate /\ UNCHANGED << handlerVars, providerVars >>
    \/ \E request \in FetchRequests :
          \E result \in NetworkResults(request) :
              Fetch(request, result) /\ UNCHANGED << handlerVars, providerVars >>

SpecWorker == InitWorker /\ [][NextWorker]_vars

\* the plan id the configuration gives: the live value in production, else
\* the sandbox value, else (sandbox value unset) the live value
C11_Configured(live, sandbox) ==
    IF config["NODE_ENV"] = "production" THEN Get(config, live)
    ELSE IF sandbox \in DOMAIN config /\ config[sandbox] # "" THEN config[sandbox]
    ELSE Get(config, live)

\* the display name of a plan id: monthly first, then yearly, then trial
C11_DisplayName(p) ==
    CASE p = C11_Configured("live_plan_monthly", "sandbox_plan_monthly")
           -> "Pro Plan (Monthly)"
      [] /\ p # C11_Configured("live_plan_monthly", "sandbox_plan_monthly")
         /\ p = C11_Configured("live_plan_yearly", "sandbox_plan_yearly")
           -> "Pro Plan (Yearly)"
      [] /\ p # C11_Configured("live_plan_monthly", "sandbox_plan_monthly")
         /\ p # C11_Configured("live_plan_yearly", "sandbox_plan_yearly")
         /\ p = C11_Configured("live_plan_trial", "sandbox_plan_trial")
           -> "Pro Trial"
      [] OTHER -> "Unknown Plan"

\* C11: an "active" update for an event that carries a plan_id includes
\* subscription.plan, the display name of the configured plan the id matches
\* (monthly, yearly, trial in this order; each configured id the live value in
\* production, else the sandbox value, else the live value) or "Unknown Plan";
\* without a plan_id (absent, or empty) the update has no subscription.plan.
C11_PlanNameOfActiveUpdate ==
    \A i \in Instances :
        (updateCalls[i] = 1 /\ Get(subscriptionUpdate[i], StatusField) = "active")
        => LET p == Get(Resource(i), "plan_id") IN
           IF p \in {Undefined, ""}
           THEN DOMAIN subscriptionUpdate[i] = {StatusField}
           ELSE /\ DOMAIN subscriptionUpdate[i] = {StatusField, PlanField}
                /\ subscriptionUpdate[i][PlanField] = C11_DisplayName(p)

\* outside production, with the sandbox monthly plan unset, the live monthly
\* id is recognized
C11_Witness ==
    \E i \in Instances :
        /\ pc[i] = "updating"
        /\ config["NODE_ENV"] = "development"
        /\ "sandbox_plan_monthly" \notin DOMAIN config
        /\ Get(Resource(i), "plan_id") = "P-LM"
        /\ Get(config, "live_plan_yearly") = "P-LM"
        /\ subscriptionUpdate[i][PlanField] = "Pro Plan (Monthly)"

\* C12: processing the same verified event twice in succession leaves the
\* user records as processing it once did, for every handled event and every
\* starting record: once a delivery of the event has been answered 200, later
\* deliveries of it leave the store as it was at that answer.
C12_RedeliveryIsIdempotent == acked >= 1 => store = snapshot

\* a cancellation of a record that was not cancelled, applied twice
C12_Witness ==
    /\ acked = 2
    /\ Len(commits) = 2
    /\ outbox["event_type"] = "BILLING.SUBSCRIPTION.CANCELLED"
    /\ store0["u1"][StatusField] = "active"
    /\ store["u1"][StatusField] = "cancelled"

\* the three fields the handler writes
SubscriptionFields == {StatusField, PlanField, ValidityField}

\* instance i's update settles in this step
UpdateSettles(i) == pc[i] = "updating" /\ pc'[i] = "updated"

\* C13: no step creates, removes or replaces a record: the set of keys stays
\* as it is; an update aimed at a key with no record fails and leaves the store
\* unchanged; the store changes only in a successful update, and then only
\* fields among subscription.status, subscription.plan and
\* subscription.validity of the record keyed by the event's custom_id change,
\* every other field of it and every other record staying as it was.
C13_PartialUpdateOfExistingRecord ==
    [][ /\ DOMAIN store' = DOMAIN store
        /\ \A i \in Instances :
               (UpdateSettles(i) /\ Resource(i)["custom_id"] \notin DOMAIN store)
               => (store' = store /\ updateError'[i])
        /\ store' # store
           => \E i \in Instances :
                  /\ UpdateSettles(i)
                  /\ ~updateError'[i]
                  /\ LET key == Resource(i)["custom_id"] IN
                     /\ \A k \in DOMAIN store \ {key} : store'[k] = store[k]
                     /\ DOMAIN store[key] \subseteq DOMAIN store'[key]
                     /\ DOMAIN store'[key] \ DOMAIN store[key] \subseteq SubscriptionFields
                     /\ \A f \in DOMAIN store[key] \ SubscriptionFields :
                            store'[key][f] = store[key][f]
      ]_vars

\* a successful update has changed the status of "u1" and kept its e-mail
\* address and the other record
C13_Witness ==
    \E i \in Instances :
        /\ pc[i] = "updated"
        /\ ~updateError[i]
        /\ Resource(i)["custom_id"] = "u1"
        /\ store["u1"][StatusField] = "cancelled"
        /\ store["u1"]["email"] = "a@example.org"
        /\ store["u0"] = OtherRecord

\* the commits to record k that name field f, by their place in the commit order
C14_Writes(k, f) ==
    { n \in 1..Len(commits) : commits[n].key = k /\ f \in DOMAIN commits[n].data }

\* the greatest member of a non-empty set of numbers
C14_Last(S) == CHOOSE n \in S : \A m \in S : m <= n

\* the fields of record k after the commits
C14_Fields(k) ==
    DOMAIN store0[k] \cup
        UNION { DOMAIN commits[n].data : n \in { m \in 1..Len(commits) : commits[m].key = k } }

\* the issued updates applied one after another in commit order: a field has
\* the value of the last commit that names it, or its starting value
C14_LastWriteWins ==
    [k \in DOMAIN store0 |->
        [f \in C14_Fields(k) |->
            IF C14_Writes(k, f) = {} THEN store0[k][f]
            ELSE commits[C14_Last(C14_Writes(k, f))].data[f]]]

\* what an invocation keeps between its steps
C14_Locals(i) ==
    << pc[i], req[i], res[i], verifyCalls[i], updateCalls[i], verification[i],
       processed[i], subscriptionUpdate[i], updateError[i] >>

\* C14: in every interleaving of concurrently running invocations a step
\* changes the locals of at most one invocation, an invocation issues at most
\* one update, and the store always equals the result of applying the issued
\* updates one after another in the order the store committed them (last
\* write wins per field).
C14_ConcurrentUpdatesSerialize ==
    [][ /\ \A i, j \in Instances :
               (C14_Locals(i)' # C14_Locals(i) /\ C14_Locals(j)' # C14_Locals(j))
               => i = j
        /\ \A i \in Instances : updateCalls'[i] <= 1
        /\ store' = C14_LastWriteWins'
      ]_vars

\* two invocations for "u1" ran at the same time; the cancellation was
\* committed first and the activation second, so the record is active and
\* keeps the validity the cancellation wrote
C14_Witness ==
    /\ pc["h1"] = "updated"
    /\ pc["h2"] = "updated"
    /\ Len(commits) = 2
    /\ commits[1].key = "u1"
    /\ commits[2].key = "u1"
    /\ commits[1].data # commits[2].data
    /\ store["u1"][StatusField] = "active"
    /\ store["u1"][ValidityField] = "Cancelled"

\* the status an event type dictates; none for the other types
C15_DictatedStatus(type) ==
    CASE type \in {"BILLING.SUBSCRIPTION.ACTIVATED", "PAYMENT.SALE.COMPLETED"} -> "active"
      [] type = "BILLING.SUBSCRIPTION.CANCELLED" -> "cancelled"
      [] type \in {"BILLING.SUBSCRIPTION.SUSPENDED",
                   "BILLING.SUBSCRIPTION.PAYMENT.FAILED"} -> "payment_failed"
      [] OTHER -> "none"

\* C15: the update is not guarded by the record: whatever the record was, the
\* update issued for a handled event carries the status the event dictates,
\* and when it has succeeded the record keyed by the event's custom_id has
\* that status.
C15_StatusIsTheEventsStatus ==
    \A i \in Instances :
        (MutationDue(i) /\ pc[i] \in {"updating", "updated"})
        => /\ Get(subscriptionUpdate[i], StatusField) = C15_DictatedStatus(EventType(i))
           /\ (pc[i] = "updated" /\ ~updateError[i])
              => store[Resource(i)["custom_id"]][StatusField]
                     = C15_DictatedStatus(EventType(i))

\* a qualifying PAYMENT.SALE.COMPLETED has made a cancelled record active
C15_Witness ==
    \E i \in Instances :
        /\ pc[i] = "updated"
        /\ ~updateError[i]
        /\ EventType(i) = "PAYMENT.SALE.COMPLETED"
        /\ MutationDue(i)
        /\ store["u1"][StatusField] = "active"
        /\ store["u1"][ValidityField] = "Cancelled"

\* C16 as stated: the validity is "Cancelled" only while the status is
\* "cancelled", and "Payment Issue" only while the status is "payment_failed"
C16_ValidityAgreesWithStatus ==
    \A k \in DOMAIN store :
        /\ store[k][ValidityField] = "Cancelled" => store[k][StatusField] = "cancelled"
        /\ store[k][ValidityField] = "Payment Issue"
               => store[k][StatusField] = "payment_failed"

\* C16, amended: the validity is "Cancelled" only while the status is
\* "cancelled" or, after a later activating event, "active"; it is
\* "Payment Issue" only while the status is "payment_failed" or, after a later
\* activating event, "active". An activating event leaves the validity as it
\* was.
C16_ValidityAgreesUnlessReactivated ==
    \A k \in DOMAIN store :
        /\ store[k][ValidityField] = "Cancelled"
               => store[k][StatusField] \in {"cancelled", "active"}
        /\ store[k][ValidityField] = "Payment Issue"
               => store[k][StatusField] \in {"payment_failed", "active"}

\* a payment failure has followed a cancellation: the validity follows the status
C16_Witness ==
    /\ delivered = 2
    /\ store["u1"][StatusField] = "payment_failed"
    /\ store["u1"][ValidityField] = "Payment Issue"
    /\ \E i \in Instances :
           /\ pc[i] = "updated"
           /\ ~updateError[i]
           /\ EventType(i) = "BILLING.SUBSCRIPTION.SUSPENDED"

\* the event the provider delivers is verifiable, names an existing record and
\* has a handled type (a PAYMENT.SALE.COMPLETED counts when it is a
\* subscription payment)
C17_Due ==
    /\ outbox["resource"]["custom_id"] \in DOMAIN store0
    /\ \/ outbox["event_type"] \in RecognizedTypes \ {"PAYMENT.SALE.COMPLETED"}
       \/ /\ outbox["event_type"] = "PAYMENT.SALE.COMPLETED"
          /\ ~NotASubscriptionPayment(outbox["resource"])

\* the record has what the event dictates
C17_Applied ==
    LET key == outbox["resource"]["custom_id"]
        record == store[key]
        type == outbox["event_type"] IN
    /\ key \in DOMAIN store
    /\ record[StatusField] = C15_DictatedStatus(type)
    /\ type = "BILLING.SUBSCRIPTION.CANCELLED" => record[ValidityField] = "Cancelled"
    /\ type \in {"BILLING.SUBSCRIPTION.SUSPENDED", "BILLING.SUBSCRIPTION.PAYMENT.FAILED"}
           => record[ValidityField] = "Payment Issue"

\* C17: when the provider redelivers what was answered 500 and the
\* verification service and the store stop failing, every verifiable event
\* with the custom_id of an existing record and a handled type is eventually
\* answered 200 with its mutation applied to the record, and such an event is
\* never answered 200 with its mutation unapplied.
C17_RetryLeadsToApplication ==
    /\ C17_Due ~> (acked >= 1 /\ C17_Applied)
    /\ [](C17_Due /\ acked >= 1 => C17_Applied)

\* the cache holds a match for the request: the request is a GET and the
\* cache has an entry for its URL
C18_Holds(request) ==
    /\ request.method = "GET"
    /\ CACHE_NAME \in DOMAIN caches
    /\ request.url \in DOMAIN caches[CACHE_NAME]

\* C18: the fetch listener is cache-first and read-only: a fetch event whose
\* request has a match in the cache is answered with the cached response and
\* makes no network fetch, any other is answered with what the network fetch
\* gives; no step of the activated worker changes the cache, and the cache
\* "meno-guide-cache-v1" holds entries for URLs of urlsToCache only, for
\* all seven once the worker is installed.
C18_CacheFirstReadOnly ==
    [][ /\ (swState = "activated" /\ swState' = "activated") => caches' = caches
        /\ (fetched' # fetched \/ fetches' # fetches)
           => LET request == fetched'.request IN
              IF C18_Holds(request)
              THEN /\ fetched'.response = caches[CACHE_NAME][request.url]
                   /\ fetches' = fetches
              ELSE /\ fetches' = fetches + 1
                   /\ fetched'.response \in NetworkResults(request)
        /\ DOMAIN caches' \subseteq {CACHE_NAME}
        /\ CACHE_NAME \in DOMAIN caches'
           => DOMAIN caches'[CACHE_NAME] \subseteq CachedUrls
        /\ swState' \in {"installed", "activated"}
           => (DOMAIN caches'[CACHE_NAME] = CachedUrls /\ Cardinality(CachedUrls) = 7)
      ]_vars

\* after a network fetch for an unlisted URL, a GET of /index.html was
\* answered from the cache, which still holds the seven entries
C18_Witness ==
    /\ swState = "activated"
    /\ fetches = 1
    /\ fetched.request = [method |-> "GET", url |-> "/index.html"]
    /\ fetched.response = caches[CACHE_NAME]["/index.html"]
    /\ fetched.response.kind = "response"
    /\ Cardinality(DOMAIN caches[CACHE_NAME]) = 7

====
